---- MODULE Spec2Model ----
(***************************************************************************)
(* State-machine model of the admin panel's client components:             *)
(*   - AddProductModal  (src/unnamed/part_000): the product workflow       *)
(*     (select file, upload, submit, close) with its React state, the      *)
(*     requests it has in flight and the [product, isOpen] effect;         *)
(*   - NewsletterPage   (src/src/lib/cloudinary.ts:77-223): the debounced, *)
(*     paginated list view;                                                *)
(*   - the features transformation of handleAddProduct as a pure function. *)
(*                                                                         *)
(* Every event handler is one action.  An await splits a handler in two:   *)
(* the part before the await (the click) and its continuation (the         *)
(* response arriving), with the request in flight kept in the state.       *)
(* The variables ev, toast, sent, calls and got are the outputs and the     *)
(* input of the last step: which handler ran, the notification it showed,  *)
(* the save request it issued, the parent callbacks it invoked and the     *)
(* response it received.                                                   *)
(***************************************************************************)
EXTENDS Integers, Sequences, FiniteSets, TLC

VARIABLES
    \* ---- AddProductModal: props, owned by the parent page
    isOpen, product,
    \* ---- AddProductModal: React state (part_000:25-39)
    isSubmitting, isUploading, selectedFile, imagePreview, newProduct,
    \* ---- AddProductModal: scheduling
    effectPending,   \* the [product, isOpen] effect is due (a dependency changed)
    uploads,         \* calls to uploadImageAction not yet settled, per file
    saves,           \* save requests not yet settled
    closedBy,        \* who hid the modal last: the user or a saved product
    stale,           \* of the calls in `uploads', those started for a draft
                     \* that has been reset or replaced since
    urlBy,           \* what stored the draft's imageUrl
    \* ---- outputs of the last step of AddProductModal
    ev, toast, sent, calls, got,
    \* ---- NewsletterPage: React state (cloudinary.ts:78-87)
    emails, loading, searchQuery, pagination,
    \* ---- NewsletterPage: scheduling
    timers,          \* setTimeout calls not yet fired or cleared
    fetches,         \* list requests not yet settled
    \* ---- outputs of the last step of NewsletterPage
    listEv, listToast, issued, listGot,
    quietFetches,    \* fetches the debounce timer issued since the last change
    \* ---- the features text on its way through submit and edit
    ftyped, ftext, fsent, fpc,
    \* ---- uploadToCloudinary (cloudinary.ts:30-49): its calls, each with the
    \* promise it returned
    adapter

modalVars == <<isOpen, product, isSubmitting, isUploading, selectedFile,
               imagePreview, newProduct, effectPending, uploads,
               saves, closedBy, stale, urlBy, ev, toast, sent, calls, got>>

listVars == <<emails, loading, searchQuery, pagination, timers, fetches,
              listEv, listToast, issued, listGot, quietFetches>>

featVars == <<ftyped, ftext, fsent, fpc>>

adapterVars == <<adapter>>

vars == <<modalVars, listVars, featVars, adapterVars>>

----------------------------------------------------------------------------
(* Bounds of the model *)

\* Calls to uploadImageAction that may be outstanding at once.
MaxUploads == 2

----------------------------------------------------------------------------
(* Text.  A string is a sequence of one-character strings, so that split,  *)
(* trim and join are computed character by character.                      *)

LF == "\n"
SP == " "
Whitespace == {SP, LF}

Str1(c) == <<c>>

----------------------------------------------------------------------------
(* Values *)

NoProduct == [none |-> TRUE]
NoFile == "null"
NoPreview == "null"
NoToast == <<"none", "">>
NoRequest == [method |-> "none"]
NoResponse == [none |-> TRUE]

Files == {"f1", "f2"}

\* The data URL FileReader.readAsDataURL produces for a file.
DataUrl(f) == "data:" \o f

\* The URL the upload action returns for a file.
UrlOf(f) == "https://cdn/" \o f

\* PRODUCT_CATEGORIES / PRODUCT_SUB_CATEGORIES of '@/utils/constant'.
ProductCategories == {"paintings", "sculptures"}

ProductSubCategories(c) ==
    CASE c = "paintings" -> {"oil"}
      [] c = "sculptures" -> {"bronze"}
      [] OTHER -> {}

\* useState initial value of newProduct; also what handleReset stores.
EmptyDraft ==
    [name |-> "", description |-> "", features |-> <<>>, price |-> "",
     originalPrice |-> "", imageUrl |-> "", category |-> "", subCategory |-> ""]

\* Existing products the parent may hand over for editing.  `features' is an
\* array of strings; prices are numbers.  The product prop is untyped (any):
\* the third product was stored with a sub-category its category does not
\* list.
Products ==
    { [id |-> 42, name |-> "Vase", description |-> "Blue",
       features |-> << <<"a">>, <<"b">> >>, price |-> 1500,
       originalPrice |-> 1800, imageUrl |-> "https://cdn/p42",
       category |-> "paintings", subCategory |-> "oil"],
      [id |-> 0, name |-> "Vase", description |-> "Blue",
       features |-> << <<"a">>, <<"b">> >>, price |-> 1500,
       originalPrice |-> 1800, imageUrl |-> "https://cdn/p42",
       category |-> "paintings", subCategory |-> "oil"],
      [id |-> 7, name |-> "Vase", description |-> "Blue",
       features |-> << <<"a">>, <<"b">> >>, price |-> 1500,
       originalPrice |-> 1800, imageUrl |-> "https://cdn/p42",
       category |-> "paintings", subCategory |-> "acrylic"] }

----------------------------------------------------------------------------
(* Conversions *)

\* Array.prototype.join(sep) on an array of strings.
RECURSIVE Join(_, _)
Join(arr, sep) ==
    IF arr = <<>> THEN <<>>
    ELSE IF Len(arr) = 1 THEN arr[1]
    ELSE arr[1] \o sep \o Join(Tail(arr), sep)

\* String.prototype.split('\n'): the pieces between line feeds, empty ones
\* included; `cur' is the piece being read.
RECURSIVE SplitFrom(_, _)
SplitFrom(s, cur) ==
    IF s = <<>> THEN <<cur>>
    ELSE IF Head(s) = LF THEN <<cur>> \o SplitFrom(Tail(s), <<>>)
    ELSE SplitFrom(Tail(s), Append(cur, Head(s)))

Split(s) == SplitFrom(s, <<>>)

\* String.prototype.trim().
RECURSIVE TrimLeft(_)
TrimLeft(s) ==
    IF s # <<>> /\ Head(s) \in Whitespace THEN TrimLeft(Tail(s)) ELSE s

RECURSIVE TrimRight(_)
TrimRight(s) ==
    IF s # <<>> /\ s[Len(s)] \in Whitespace
    THEN TrimRight(SubSeq(s, 1, Len(s) - 1)) ELSE s

Trim(s) == TrimRight(TrimLeft(s))

NotBlank(f) == Trim(f) # <<>>

\* The split without the filter of blank lines.
FeaturesArrayNoFilter(text) == IF text # <<>> THEN Split(text) ELSE <<>>

\* featuresArray of handleAddProduct.
FeaturesArray(text) ==
    IF text # <<>> THEN SelectSeq(Split(text), NotBlank) ELSE <<>>

\* String(n) for the prices a product carries.
NumToString(n) ==
    CASE n = 1500 -> "1500"
      [] n = 1800 -> "1800"
      [] OTHER -> "0"

\* parseFloat(s) || 0 for the price texts of the model.
ParseFloatOr0(s) ==
    CASE s = "1500" -> 1500
      [] s = "1800" -> 1800
      [] OTHER -> 0

\* The draft the effect stores for an existing product.
FromProduct(p) ==
    [name |-> p.name, description |-> p.description,
     features |-> Join(p.features, Str1(LF)),
     price |-> NumToString(p.price),
     originalPrice |-> NumToString(p.originalPrice),
     imageUrl |-> p.imageUrl, category |-> p.category,
     subCategory |-> p.subCategory]

\* productData of handleAddProduct.
ProductData(d) ==
    [d EXCEPT !.price = ParseFloatOr0(d.price),
              !.originalPrice = ParseFloatOr0(d.originalPrice),
              !.features = FeaturesArray(d.features)]

\* isEditing of handleAddProduct: !!product?.id  (0 is falsy).
IsEditing(p) == p # NoProduct /\ p.id # 0

\* The request handleAddProduct sends.
SaveRequest(p, d) ==
    [method |-> IF IsEditing(p) THEN "PUT" ELSE "POST",
     url |-> IF IsEditing(p) THEN <<"/api/products", p.id>> ELSE <<"/api/products">>,
     body |-> ProductData(d)]

----------------------------------------------------------------------------
(* Responses *)

\* What uploadImageAction may come back with.
UploadResults == {"ok", "noUrl", "failed", "threw"}

ServerMessage == "X"

\* What a save request may come back with: a JSON body or an exception.
Threw == [threw |-> TRUE]

SaveResults ==
    [success : BOOLEAN, message : {"", ServerMessage}] \cup {Threw}

----------------------------------------------------------------------------
(* AddProductModal *)

\* A step of the modal leaves the other components alone.
ModalOnly == UNCHANGED <<listVars, featVars, adapterVars>>

Outputs(e, t, s, c) ==
    /\ ev' = e
    /\ toast' = t
    /\ sent' = s
    /\ calls' = c
    /\ got' = NoResponse
    /\ ModalOnly

NumUploads == uploads["f1"] + uploads["f2"]

\* A reset that leaves the preview in place.
handleResetKeepsPreview ==
    /\ newProduct' = EmptyDraft
    /\ selectedFile' = NoFile
    /\ imagePreview' = imagePreview
    /\ isUploading' = FALSE
    /\ stale' = uploads
    /\ urlBy' = "none"

\* handleReset.  The draft it stores is a new one: the calls still in flight
\* were made for the draft it replaces.
handleReset ==
    /\ newProduct' = EmptyDraft
    /\ selectedFile' = NoFile
    /\ imagePreview' = NoPreview
    /\ isUploading' = FALSE
    /\ stale' = uploads
    /\ urlBy' = "none"

\* The parent's onClose callback: it hides the modal, and may or may not drop
\* the product it was editing.
onClose ==
    /\ isOpen' = FALSE
    /\ product' \in {product, NoProduct}

\* The parent shows the modal, for a new product or an existing one.
ParentOpen(p) ==
    /\ ~isOpen /\ ~effectPending
    /\ isOpen' = TRUE
    /\ product' = p
    /\ effectPending' = TRUE
    /\ closedBy' = "none"
    /\ UNCHANGED <<isSubmitting, isUploading, selectedFile, imagePreview,
                   newProduct, uploads, saves, stale, urlBy>>
    /\ Outputs(<<"open", "-">>, NoToast, NoRequest, <<>>)

\* React.useEffect(..., [product, isOpen])
UseEffect ==
    /\ effectPending
    /\ effectPending' = FALSE
    /\ IF product # NoProduct
       THEN /\ newProduct' = FromProduct(product)
            /\ imagePreview' = IF product.imageUrl # "" THEN product.imageUrl
                               ELSE imagePreview
            /\ UNCHANGED <<selectedFile, isUploading>>
            /\ stale' = uploads
            /\ urlBy' = "product"
       ELSE handleReset
    /\ UNCHANGED <<isOpen, product, isSubmitting, uploads, saves, closedBy>>
    /\ Outputs(<<"effect", "-">>, NoToast, NoRequest, <<>>)

\* A file selection that never clears imageUrl.
handleFileChangeKeepsUrl(f) ==
    /\ isOpen /\ ~effectPending
    /\ selectedFile' = f
    /\ imagePreview' = DataUrl(f)
    /\ UNCHANGED newProduct
    /\ UNCHANGED <<isOpen, product, isSubmitting, isUploading,
                   effectPending, uploads, saves, closedBy, stale, urlBy>>
    /\ Outputs(<<"fileChange", f>>, NoToast, NoRequest, <<>>)

\* A file selection that clears imageUrl in edit mode too.
handleFileChangeAlwaysClears(f) ==
    /\ isOpen /\ ~effectPending
    /\ selectedFile' = f
    /\ imagePreview' = DataUrl(f)
    /\ newProduct' = [newProduct EXCEPT !.imageUrl = ""]
    /\ urlBy' = "none"
    /\ UNCHANGED <<isOpen, product, isSubmitting, isUploading,
                   effectPending, uploads, saves, closedBy, stale>>
    /\ Outputs(<<"fileChange", f>>, NoToast, NoRequest, <<>>)

\* handleFileChange with a file chosen, together with the reader.onloadend
\* it registers.  FileReader reads the local file and the callback only
\* stores imagePreview, which no handler reads: when the callback runs
\* changes nothing but the picture shown.
handleFileChange(f) ==
    /\ isOpen /\ ~effectPending
    /\ selectedFile' = f
    /\ imagePreview' = DataUrl(f)
    /\ newProduct' = IF product = NoProduct
                     THEN [newProduct EXCEPT !.imageUrl = ""]
                     ELSE newProduct
    /\ urlBy' = IF product = NoProduct THEN "none" ELSE urlBy
    /\ UNCHANGED <<isOpen, product, isSubmitting, isUploading,
                   effectPending, uploads, saves, closedBy, stale>>
    /\ Outputs(<<"fileChange", f>>, NoToast, NoRequest, <<>>)

\* handleUploadImage up to its await.  The button is rendered only with a
\* file selected and is disabled only while isUploading.
handleUploadImage ==
    /\ isOpen /\ ~effectPending
    /\ selectedFile # NoFile
    /\ ~isUploading
    /\ NumUploads < MaxUploads
    /\ isUploading' = TRUE
    /\ uploads' = [uploads EXCEPT ![selectedFile] = @ + 1]
    /\ UNCHANGED <<isOpen, product, isSubmitting, selectedFile, imagePreview,
                   newProduct, effectPending, saves, closedBy, stale, urlBy>>
    /\ Outputs(<<"upload", selectedFile>>, NoToast, NoRequest, <<>>)

\* handleUploadImage from its await on: the result, catch and finally.  The
\* call that answers is any of the pending ones for the file, one made for
\* the present draft or one made for an earlier draft.
UploadSettles(f, r) ==
    /\ ~effectPending
    /\ uploads[f] > 0
    /\ uploads' = [uploads EXCEPT ![f] = @ - 1]
    /\ \E old \in BOOLEAN :
          /\ IF old THEN stale[f] > 0 ELSE uploads[f] > stale[f]
          /\ stale' = IF old THEN [stale EXCEPT ![f] = @ - 1] ELSE stale
          /\ urlBy' = IF r # "ok" THEN urlBy
                      ELSE IF old THEN "staleUpload" ELSE "upload"
    /\ IF r = "ok"
       THEN /\ newProduct' = [newProduct EXCEPT !.imageUrl = UrlOf(f)]
            /\ toast' = <<"success", "Image uploaded successfully">>
       ELSE /\ UNCHANGED newProduct
            /\ toast' = <<"error", "Failed to upload image">>
    /\ isUploading' = FALSE
    /\ UNCHANGED <<isOpen, product, isSubmitting, selectedFile, imagePreview,
                   effectPending, saves, closedBy>>
    /\ ev' = <<"uploadSettled", f>>
    /\ sent' = NoRequest
    /\ calls' = <<>>
    /\ got' = [upload |-> r]
    /\ ModalOnly

\* A handleAddProduct that lacks the imageUrl validation of lines 110-113.
handleAddProductNoCheck ==
    /\ isOpen /\ ~effectPending
    /\ ~isSubmitting /\ ~isUploading
    /\ isSubmitting' = TRUE
    /\ sent' = SaveRequest(product, newProduct)
    /\ saves' = saves \cup {[isEditing |-> IsEditing(product)]}
    /\ toast' = NoToast
    /\ UNCHANGED <<isOpen, product, isUploading, selectedFile, imagePreview,
                   newProduct, effectPending, uploads, closedBy, stale, urlBy>>
    /\ ev' = <<"submit", "-">>
    /\ calls' = <<>>
    /\ got' = NoResponse
    /\ ModalOnly

\* handleAddProduct up to its await.  The submit button is disabled while
\* isSubmitting or isUploading.
handleAddProduct ==
    /\ isOpen /\ ~effectPending
    /\ ~isSubmitting /\ ~isUploading
    /\ IF newProduct.imageUrl = ""
       THEN /\ toast' = <<"error", "Please upload an image for the product">>
            /\ sent' = NoRequest
            /\ UNCHANGED <<isSubmitting, saves>>
       ELSE /\ isSubmitting' = TRUE
            /\ sent' = SaveRequest(product, newProduct)
            /\ saves' = saves \cup {[isEditing |-> IsEditing(product)]}
            /\ toast' = NoToast
    /\ UNCHANGED <<isOpen, product, isUploading, selectedFile, imagePreview,
                   newProduct, effectPending, uploads, closedBy, stale, urlBy>>
    /\ ev' = <<"submit", "-">>
    /\ calls' = <<>>
    /\ got' = NoResponse
    /\ ModalOnly

\* The message toast.success / toast.error gets after a save:
\* result.message || `Product ${...} successfully` / `Failed to ${...} product`.
SaveMessage(r, editing) ==
    IF r.message # "" THEN r.message
    ELSE IF r.success
         THEN (IF editing THEN "Product updated successfully"
                          ELSE "Product added successfully")
         ELSE (IF editing THEN "Failed to update product"
                          ELSE "Failed to add product")

\* handleClose
handleClose ==
    /\ handleReset
    /\ onClose

\* A continuation that also resets the draft when the save fails.
SaveSettlesResetsOnFailure(s, r) ==
    /\ ~effectPending
    /\ s \in saves
    /\ saves' = saves \ {s}
    /\ IF r # Threw /\ r.success
       THEN /\ toast' = <<"success", SaveMessage(r, s.isEditing)>>
            /\ handleClose
            /\ calls' = <<"onClose", "onSuccess">>
            /\ effectPending' = (isOpen' # isOpen \/ product' # product)
            /\ closedBy' = "save"
       ELSE /\ toast' = IF r = Threw
                        THEN <<"error", "Failed to save product">>
                        ELSE <<"error", SaveMessage(r, s.isEditing)>>
            /\ calls' = <<>>
            /\ handleReset
            /\ UNCHANGED <<isOpen, product, effectPending, closedBy>>
    /\ isSubmitting' = FALSE
    /\ UNCHANGED uploads
    /\ ev' = <<"saveSettled", IF r # Threw /\ r.success THEN "ok" ELSE "failed">>
    /\ sent' = NoRequest
    /\ got' = r
    /\ ModalOnly

\* A continuation without the finally block: the flag is cleared only on the
\* path that closes the workflow.
SaveSettlesNoFinally(s, r) ==
    /\ ~effectPending
    /\ s \in saves
    /\ saves' = saves \ {s}
    /\ IF r # Threw /\ r.success
       THEN /\ toast' = <<"success", SaveMessage(r, s.isEditing)>>
            /\ handleClose
            /\ calls' = <<"onClose", "onSuccess">>
            /\ effectPending' = (isOpen' # isOpen \/ product' # product)
            /\ closedBy' = "save"
            /\ isSubmitting' = FALSE
       ELSE /\ toast' = IF r = Threw
                        THEN <<"error", "Failed to save product">>
                        ELSE <<"error", SaveMessage(r, s.isEditing)>>
            /\ calls' = <<>>
            /\ UNCHANGED <<isOpen, product, newProduct, selectedFile,
                           imagePreview, isUploading, effectPending, closedBy,
                           stale, urlBy, isSubmitting>>
    /\ UNCHANGED uploads
    /\ ev' = <<"saveSettled", IF r # Threw /\ r.success THEN "ok" ELSE "failed">>
    /\ sent' = NoRequest
    /\ got' = r
    /\ ModalOnly

\* handleAddProduct from its await on: the result, catch and finally.
SaveSettles(s, r) ==
    /\ ~effectPending
    /\ s \in saves
    /\ saves' = saves \ {s}
    /\ IF r # Threw /\ r.success
       THEN /\ toast' = <<"success", SaveMessage(r, s.isEditing)>>
            /\ handleClose
            /\ calls' = <<"onClose", "onSuccess">>
            /\ effectPending' = (isOpen' # isOpen \/ product' # product)
            /\ closedBy' = "save"
       ELSE /\ toast' = IF r = Threw
                        THEN <<"error", "Failed to save product">>
                        ELSE <<"error", SaveMessage(r, s.isEditing)>>
            /\ calls' = <<>>
            /\ UNCHANGED <<isOpen, product, newProduct, selectedFile,
                           imagePreview, isUploading, effectPending, closedBy,
                           stale, urlBy>>
    /\ isSubmitting' = FALSE
    /\ UNCHANGED uploads
    /\ ev' = <<"saveSettled", IF r # Threw /\ r.success THEN "ok" ELSE "failed">>
    /\ sent' = NoRequest
    /\ got' = r
    /\ ModalOnly

\* The modal's close affordances (Modal onClose, the Cancel button).
Close ==
    /\ isOpen /\ ~effectPending
    /\ handleClose
    /\ effectPending' = TRUE
    /\ closedBy' = "user"
    /\ UNCHANGED <<isSubmitting, uploads, saves>>
    /\ Outputs(<<"close", "-">>, NoToast, NoRequest, <<"onClose">>)

\* What the user types into the text inputs: (field, value).
FieldInputs ==
    { <<"name", "Lamp">> }

\* onChange of a text input or textarea.
handleInputChange(field, val) ==
    /\ isOpen /\ ~effectPending
    /\ newProduct' = [newProduct EXCEPT ![field] = val]
    /\ UNCHANGED <<isOpen, product, isSubmitting, isUploading, selectedFile,
                   imagePreview, effectPending, uploads, saves, closedBy,
                   stale, urlBy>>
    /\ Outputs(<<"input", field>>, NoToast, NoRequest, <<>>)

\* onChange of the category dropdown.
handleCategoryChange(val) ==
    /\ isOpen /\ ~effectPending
    /\ newProduct' = [newProduct EXCEPT !.category = val, !.subCategory = ""]
    /\ UNCHANGED <<isOpen, product, isSubmitting, isUploading, selectedFile,
                   imagePreview, effectPending, uploads, saves, closedBy,
                   stale, urlBy>>
    /\ Outputs(<<"category", val>>, NoToast, NoRequest, <<>>)

\* subCategoryOptions
subCategoryOptions ==
    IF newProduct.category # "" THEN ProductSubCategories(newProduct.category)
    ELSE {}

\* onChange of the sub-category dropdown (disabled without a category).
handleSubCategoryChange(val) ==
    /\ isOpen /\ ~effectPending
    /\ newProduct.category # ""
    /\ val \in subCategoryOptions
    /\ newProduct' = [newProduct EXCEPT !.subCategory = val]
    /\ UNCHANGED <<isOpen, product, isSubmitting, isUploading, selectedFile,
                   imagePreview, effectPending, uploads, saves, closedBy,
                   stale, urlBy>>
    /\ Outputs(<<"subCategory", val>>, NoToast, NoRequest, <<>>)

----------------------------------------------------------------------------
(* NewsletterPage *)

\* The delay of the debounce's setTimeout, in milliseconds.
DebounceMs == 500

\* Clock ticks the delay is divided into.
DebounceTicks == 2

\* List requests that may be outstanding at once.
MaxFetches == 2

\* itemsPerPage of the initial pagination state.
ItemsPerPage == 10

\* Pages the pagination control can ask for.
Pages == {1, 2}

\* What the user may have in the search box.
Searches == {"", "a", "ab"}

NoFetch == [page |-> 0]
NoPagination == [none |-> TRUE]

\* useState initial value of pagination.
InitialPagination ==
    [currentPage |-> 1, itemsPerPage |-> ItemsPerPage, hasMore |-> FALSE,
     offset |-> 0, total |-> 0]

\* The rows the server holds for a request: one entry, named after it.
RowsFor(req) == << [id |-> req.page, email |-> req.search] >>

PaginationFor(req, data) ==
    [currentPage |-> req.page, itemsPerPage |-> req.limit, hasMore |-> FALSE,
     offset |-> (req.page - 1) * req.limit, total |-> Len(data)]

\* What a list request may come back with: a JSON body or an exception
\* (of fetch, or of response.json()).
FetchResults(req) ==
    { [success |-> TRUE, data |-> RowsFor(req),
       pagination |-> PaginationFor(req, RowsFor(req))],
      [success |-> TRUE, data |-> <<>>, pagination |-> NoPagination] }
    \cup { [success |-> FALSE, message |-> m] : m \in {"", ServerMessage} }
    \cup { Threw }

\* A step of the list view leaves the other components alone.
ListOnly == UNCHANGED <<modalVars, featVars, adapterVars>>

\* fetchNewsletters up to its await.
fetchNewsletters(page, search) ==
    /\ loading' = TRUE
    /\ fetches' = Append(fetches, [page |-> page, search |-> search,
                                   limit |-> pagination.itemsPerPage,
                                   overtaken |-> FALSE])
    /\ issued' = [page |-> page, search |-> search,
                  limit |-> pagination.itemsPerPage]
    /\ listToast' = NoToast
    /\ listGot' = NoResponse
    /\ UNCHANGED <<emails, pagination>>

\* The timer the effect of [searchQuery] arms.
NewTimer(search) == [search |-> search, left |-> DebounceTicks]

\* A change of the search text whose effect has no cleanup (no clearTimeout).
setSearchQueryNoClear(v) ==
    /\ v # searchQuery
    /\ searchQuery' = v
    /\ timers' = timers \cup {NewTimer(v)}
    /\ quietFetches' = 0
    /\ listEv' = "search"
    /\ listToast' = NoToast
    /\ issued' = NoFetch
    /\ listGot' = NoResponse
    /\ UNCHANGED <<emails, loading, pagination, fetches>>
    /\ ListOnly

\* onChange of the search box and the effect of [searchQuery] it triggers:
\* the cleanup clears the timer of the previous run, the body arms a new one.
setSearchQuery(v) ==
    /\ v # searchQuery
    /\ searchQuery' = v
    /\ timers' = {NewTimer(v)}
    /\ quietFetches' = 0
    /\ listEv' = "search"
    /\ listToast' = NoToast
    /\ issued' = NoFetch
    /\ listGot' = NoResponse
    /\ UNCHANGED <<emails, loading, pagination, fetches>>
    /\ ListOnly

\* Time passes by one tick; a timer that is due fires first.
Tick ==
    /\ timers # {}
    /\ \A t \in timers : t.left > 0
    /\ timers' = { [t EXCEPT !.left = @ - 1] : t \in timers }
    /\ listEv' = "tick"
    /\ listToast' = NoToast
    /\ issued' = NoFetch
    /\ listGot' = NoResponse
    /\ UNCHANGED <<emails, loading, searchQuery, pagination, fetches,
                   quietFetches>>
    /\ ListOnly

\* The callback of setTimeout, with the search text its closure holds.
TimerFires(t) ==
    /\ t \in timers
    /\ t.left = 0
    /\ Len(fetches) < MaxFetches
    /\ timers' = timers \ {t}
    /\ fetchNewsletters(1, t.search)
    /\ quietFetches' = quietFetches + 1
    /\ listEv' = "timer"
    /\ UNCHANGED searchQuery
    /\ ListOnly

\* handlePageChange.  Pagination is rendered only when the list is not
\* loading and holds rows.
handlePageChange(page) ==
    /\ ~loading
    /\ Len(emails) > 0
    /\ Len(fetches) < MaxFetches
    /\ fetchNewsletters(page, searchQuery)
    /\ listEv' = "page"
    /\ UNCHANGED <<searchQuery, timers, quietFetches>>
    /\ ListOnly

\* The requests still pending, marked as having been overtaken by the answer
\* of a request issued after them.
Overtake(reqs) == [k \in 1 .. Len(reqs) |-> [reqs[k] EXCEPT !.overtaken = TRUE]]

\* A continuation that empties the list when the fetch fails.
FetchSettlesClearsOnFailure(i, r) ==
    /\ i \in 1 .. Len(fetches)
    /\ r \in FetchResults(fetches[i])
    /\ fetches' = Overtake(SubSeq(fetches, 1, i - 1))
                    \o SubSeq(fetches, i + 1, Len(fetches))
    /\ IF r # Threw /\ r.success
       THEN /\ emails' = r.data
            /\ pagination' = IF r.pagination # NoPagination THEN r.pagination
                             ELSE pagination
            /\ listToast' = NoToast
       ELSE /\ listToast' =
                  IF r # Threw /\ r.message # ""
                  THEN <<"error", r.message>>
                  ELSE <<"error", "Failed to fetch newsletters">>
            /\ emails' = <<>>
            /\ UNCHANGED pagination
    /\ loading' = FALSE
    /\ listEv' = "fetchSettled"
    /\ issued' = NoFetch
    /\ listGot' = [res |-> r, overtaken |-> fetches[i].overtaken]
    /\ UNCHANGED <<searchQuery, timers, quietFetches>>
    /\ ListOnly

\* A continuation that ignores the answer of a request that was overtaken.
FetchSettlesDropsStale(i, r) ==
    /\ i \in 1 .. Len(fetches)
    /\ r \in FetchResults(fetches[i])
    /\ fetches' = Overtake(SubSeq(fetches, 1, i - 1))
                    \o SubSeq(fetches, i + 1, Len(fetches))
    /\ IF r # Threw /\ r.success /\ ~fetches[i].overtaken
       THEN /\ emails' = r.data
            /\ pagination' = IF r.pagination # NoPagination THEN r.pagination
                             ELSE pagination
            /\ listToast' = NoToast
       ELSE /\ listToast' =
                  IF r # Threw /\ r.success THEN NoToast
                  ELSE IF r # Threw /\ r.message # ""
                  THEN <<"error", r.message>>
                  ELSE <<"error", "Failed to fetch newsletters">>
            /\ UNCHANGED <<emails, pagination>>
    /\ loading' = FALSE
    /\ listEv' = "fetchSettled"
    /\ issued' = NoFetch
    /\ listGot' = [res |-> r, overtaken |-> fetches[i].overtaken]
    /\ UNCHANGED <<searchQuery, timers, quietFetches>>
    /\ ListOnly

\* fetchNewsletters from its await on: the result, catch and finally.  Every
\* pending request may answer, in any order; nothing cancels one.
FetchSettles(i, r) ==
    /\ i \in 1 .. Len(fetches)
    /\ r \in FetchResults(fetches[i])
    /\ fetches' = Overtake(SubSeq(fetches, 1, i - 1))
                    \o SubSeq(fetches, i + 1, Len(fetches))
    /\ IF r # Threw /\ r.success
       THEN /\ emails' = r.data
            /\ pagination' = IF r.pagination # NoPagination THEN r.pagination
                             ELSE pagination
            /\ listToast' = NoToast
       ELSE /\ listToast' =
                  IF r # Threw /\ r.message # ""
                  THEN <<"error", r.message>>
                  ELSE <<"error", "Failed to fetch newsletters">>
            /\ UNCHANGED <<emails, pagination>>
    /\ loading' = FALSE
    /\ listEv' = "fetchSettled"
    /\ issued' = NoFetch
    /\ listGot' = [res |-> r, overtaken |-> fetches[i].overtaken]
    /\ UNCHANGED <<searchQuery, timers, quietFetches>>
    /\ ListOnly

----------------------------------------------------------------------------
(* The features text: typed, submitted, loaded again for editing, and      *)
(* submitted again.                                                        *)

\* Longest features text tried.
MaxLen == 4

FeatureChars == {"a", "b", SP, LF}

Texts == UNION { [1 .. n -> FeatureChars] : n \in 0 .. MaxLen }

FeaturesOnly == UNCHANGED <<modalVars, listVars, adapterVars>>

\* handleAddProduct: featuresArray goes into the request body.
SubmitFeatures ==
    /\ fpc \in {"typed", "loaded"}
    /\ fsent' = Append(fsent, FeaturesArray(ftext))
    /\ fpc' = IF fpc = "typed" THEN "saved" ELSE "done"
    /\ UNCHANGED <<ftyped, ftext>>
    /\ FeaturesOnly

\* The effect of [product, isOpen] for the saved product: its features
\* array is joined with line feeds into the textarea's text.
LoadFeatures ==
    /\ fpc = "saved"
    /\ ftext' = Join(fsent[1], Str1(LF))
    /\ fpc' = "loaded"
    /\ UNCHANGED <<ftyped, fsent>>
    /\ FeaturesOnly

----------------------------------------------------------------------------
(* uploadToCloudinary: the promise around cloudinary's upload_stream *)

\* Calls of uploadToCloudinary followed.
MaxAdapterCalls == 2

\* Times the provider may invoke the callback of one upload_stream.  The
\* adapter does not control it; a promise has to absorb a repeated call.
MaxCallbacks == 2

Null == [null |-> TRUE]

Buffers == {"bytes"}

\* The folder argument: omitted, or given.
FolderArgs == {"undefined", "paintings"}

\* folder: string = 'products'
FolderOrDefault(folder) == IF folder = "undefined" THEN "products" ELSE folder

\* What the provider may pass to the callback as error and as result.
ProviderErrors == {Null, [error |-> "provider"]}
ProviderResults == {Null, [secure_url |-> "https://cdn/x", public_id |-> "x"]}

NoResultError == [error |-> "Cloudinary upload failed: No result returned"]

NoCall ==
    [pc |-> "idle", buffer |-> "-", folder |-> "-", streams |-> 0,
     callbacks |-> 0, first |-> Null, last |-> Null,
     promise |-> [state |-> "none", value |-> Null, settles |-> 0]]

\* resolve / reject of a promise: they settle a pending promise and do
\* nothing to a settled one.
PromiseResolve(p, v) ==
    IF p.state = "pending"
    THEN [state |-> "fulfilled", value |-> v, settles |-> p.settles + 1]
    ELSE p

PromiseReject(p, e) ==
    IF p.state = "pending"
    THEN [state |-> "rejected", value |-> e, settles |-> p.settles + 1]
    ELSE p

\* A callback that lacks the check for a missing result.
uploadCallbackAcceptsNoResult(p, error, result) ==
    IF error # Null THEN PromiseReject(p, error)
    ELSE PromiseResolve(p, result)

\* The callback handed to upload_stream: (error, result) => { ... }.
uploadCallback(p, error, result) ==
    IF error # Null THEN PromiseReject(p, error)
    ELSE IF result = Null THEN PromiseReject(p, NoResultError)
    ELSE PromiseResolve(p, result)

AdapterOnly == UNCHANGED <<modalVars, listVars, featVars>>

\* uploadToCloudinary(fileBuffer, folder): the executor of the promise calls
\* upload_stream once and pipes the buffer into it.
uploadToCloudinary(c, fileBuffer, folder) ==
    /\ adapter[c].pc = "idle"
    /\ adapter' = [adapter EXCEPT ![c] =
                     [@ EXCEPT !.pc = "streaming",
                               !.buffer = fileBuffer,
                               !.folder = FolderOrDefault(folder),
                               !.streams = @ + 1,
                               !.promise = [state |-> "pending", value |-> Null,
                                            settles |-> 0]]]
    /\ AdapterOnly

\* The provider invokes the callback of a call's upload_stream.
ProviderCallback(c, error, result) ==
    /\ adapter[c].pc = "streaming"
    /\ adapter[c].callbacks < MaxCallbacks
    /\ adapter' = [adapter EXCEPT ![c] =
                     [@ EXCEPT !.callbacks = @ + 1,
                               !.first = IF adapter[c].callbacks = 0
                                         THEN [error |-> error, result |-> result]
                                         ELSE @,
                               !.last = [error |-> error, result |-> result],
                               !.promise = uploadCallback(@, error, result)]]
    /\ AdapterOnly

----------------------------------------------------------------------------
(* Specifications *)

\* The modal mounted and hidden, its mount effect done.
ModalInit ==
    /\ isOpen = FALSE
    /\ product = NoProduct
    /\ isSubmitting = FALSE
    /\ isUploading = FALSE
    /\ selectedFile = NoFile
    /\ imagePreview = NoPreview
    /\ newProduct = EmptyDraft
    /\ effectPending = FALSE
    /\ uploads = [f \in Files |-> 0]
    /\ saves = {}
    /\ closedBy = "none"
    /\ stale = [f \in Files |-> 0]
    /\ urlBy = "none"
    /\ got = NoResponse
    /\ ev = <<"init", "-">>
    /\ toast = NoToast
    /\ sent = NoRequest
    /\ calls = <<>>

\* The list view mounted: first render and the effect of [searchQuery] done.
ListInit ==
    /\ emails = <<>>
    /\ loading = TRUE
    /\ searchQuery = ""
    /\ pagination = InitialPagination
    /\ timers = {NewTimer("")}
    /\ fetches = <<>>
    /\ listEv = "init"
    /\ listToast = NoToast
    /\ issued = NoFetch
    /\ listGot = NoResponse
    /\ quietFetches = 0

FeaturesInit ==
    /\ ftyped = <<>>
    /\ ftext = <<>>
    /\ fsent = <<>>
    /\ fpc = "idle"

AdapterInit == adapter = [c \in 1 .. MaxAdapterCalls |-> NoCall]

Init == ModalInit /\ ListInit /\ FeaturesInit /\ AdapterInit

\* The product workflow.
Next ==
    \/ \E p \in Products \cup {NoProduct} : ParentOpen(p)
    \/ UseEffect
    \/ \E f \in Files : handleFileChange(f)
    \/ handleUploadImage
    \/ \E f \in Files, r \in UploadResults : UploadSettles(f, r)
    \/ handleAddProduct
    \/ \E s \in saves, r \in SaveResults : SaveSettles(s, r)
    \/ Close
    \/ \E in \in FieldInputs : handleInputChange(in[1], in[2])
    \/ \E c \in ProductCategories : handleCategoryChange(c)
    \/ \E c \in UNION {ProductSubCategories(k) : k \in ProductCategories} :
           handleSubCategoryChange(c)

Spec == Init /\ [][Next]_vars

\* The list view.
NextList ==
    \/ \E v \in Searches : setSearchQuery(v)
    \/ Tick
    \/ \E t \in timers : TimerFires(t)
    \/ \E page \in Pages : handlePageChange(page)
    \/ \E i \in 1 .. Len(fetches) : \E r \in FetchResults(fetches[i]) :
           FetchSettles(i, r)

SpecList == Init /\ [][NextList]_vars

\* The features text, for every text of the bound.
InitFeatures ==
    /\ ModalInit
    /\ ListInit
    /\ AdapterInit
    /\ ftyped \in Texts
    /\ ftext = ftyped
    /\ fsent = <<>>
    /\ fpc = "typed"

NextFeatures ==
    \/ SubmitFeatures
    \/ LoadFeatures

SpecFeatures == InitFeatures /\ [][NextFeatures]_vars

\* The upload adapter.
NextAdapter ==
    \/ \E c \in 1 .. MaxAdapterCalls, b \in Buffers, folder \in FolderArgs :
           uploadToCloudinary(c, b, folder)
    \/ \E c \in 1 .. MaxAdapterCalls, e \in ProviderErrors, r \in ProviderResults :
           ProviderCallback(c, e, r)

SpecAdapter == Init /\ [][NextAdapter]_vars

\* The product workflow with its requests answered: the steps that start,
\* answer, or reset an upload or a save.  React runs a due effect; every
\* request that is pending is answered at some point, however often the
\* workflow is closed and opened meanwhile.
UploadAnswers == \E f \in Files, r \in UploadResults : UploadSettles(f, r)

SaveAnswers == \E s \in saves, r \in SaveResults : SaveSettles(s, r)

NextLive ==
    \/ \E p \in Products \cup {NoProduct} : ParentOpen(p)
    \/ UseEffect
    \/ \E f \in Files : handleFileChange(f)
    \/ handleUploadImage
    \/ UploadAnswers
    \/ handleAddProduct
    \/ SaveAnswers
    \/ Close

SpecLive ==
    /\ Init
    /\ [][NextLive]_vars
    /\ WF_vars(UseEffect)
    /\ SF_vars(UploadAnswers)
    /\ SF_vars(SaveAnswers)

----------------------------------------------------------------------------
(* Properties of the product workflow (of Spec) *)

ValidationToast == <<"error", "Please upload an image for the product">>

\* C1: a submit made while the draft's imageUrl is empty issues no save
\* request, shows the validation notification, and leaves the draft and
\* isSubmitting as they were.
C1_EmptyImageSubmitRejected ==
    [][ (ev'[1] = "submit" /\ newProduct.imageUrl = "")
          => /\ sent' = NoRequest
             /\ saves' = saves
             /\ toast' = ValidationToast
             /\ newProduct' = newProduct
             /\ isSubmitting' = isSubmitting ]_vars

\* A submit was rejected for its empty imageUrl.
C1_Witness ==
    /\ ev[1] = "submit"
    /\ newProduct.imageUrl = ""
    /\ toast = ValidationToast
    /\ ~isSubmitting

\* C2: isUploading and isSubmitting are never both true.
C2_OneBusyStateAtATime == ~(isUploading /\ isSubmitting)

\* C3: at most one call to the upload action is outstanding at any time.
C3_AtMostOneUploadOutstanding == NumUploads <= 1

\* C4: every step that closes the workflow (handleClose) leaves every draft
\* field at its empty initial value, no file selected and no preview, and
\* signals the parent, which hides the workflow.
C4_CloseResetsEverything ==
    [][ (calls' # <<>> /\ calls'[1] = "onClose")
          => /\ newProduct' = EmptyDraft
             /\ selectedFile' = NoFile
             /\ imagePreview' = NoPreview
             /\ ~isOpen' ]_vars

\* The user closed the workflow while an upload and a save were in flight.
C4_Witness ==
    /\ ev[1] = "close"
    /\ calls = <<"onClose">>
    /\ NumUploads > 0
    /\ saves # {}
    /\ newProduct = EmptyDraft
    /\ ~isOpen

\* C5: a save answered with success = true shows a success notification,
\* resets the draft, closes the workflow and then calls onSuccess; and once
\* the workflow has closed that way the draft is still empty.
C5_SuccessResetsAndStaysEmpty ==
    /\ (ev = <<"saveSettled", "ok">>
          => /\ toast[1] = "success"
             /\ newProduct = EmptyDraft
             /\ ~isOpen
             /\ calls = <<"onClose", "onSuccess">>)
    /\ ((~isOpen /\ closedBy = "save") => newProduct = EmptyDraft)

GenericSaveErrors ==
    {"Failed to save product", "Failed to update product", "Failed to add product"}

\* C6: a save answered with success = false, or failing in transport, shows
\* an error notification (the server's message when there is one, a generic
\* message otherwise), does not close the workflow, does not call onSuccess,
\* and leaves the draft, the selected file and the preview as they were.
C6_FailureKeepsDraft ==
    [][ (ev' = <<"saveSettled", "failed">>)
          => /\ toast'[1] = "error"
             /\ IF got' # Threw /\ got'.message # ""
                THEN toast'[2] = got'.message
                ELSE toast'[2] \in GenericSaveErrors
             /\ isOpen' = isOpen
             /\ calls' = <<>>
             /\ newProduct' = newProduct
             /\ selectedFile' = selectedFile
             /\ imagePreview' = imagePreview ]_vars

\* A save was refused with the server's message while the workflow was open
\* with a file selected and a filled draft.
C6_Witness ==
    /\ ev = <<"saveSettled", "failed">>
    /\ got = [success |-> FALSE, message |-> ServerMessage]
    /\ toast = <<"error", ServerMessage>>
    /\ isOpen
    /\ selectedFile # NoFile
    /\ newProduct.imageUrl # ""
    /\ newProduct.name # ""

\* C7: in create mode, selecting a file empties the draft's imageUrl, makes
\* the file the selected file, and changes no other draft field.
C7_CreateModeFileClearsUrl ==
    [][ (ev'[1] = "fileChange" /\ product = NoProduct)
          => /\ newProduct' = [newProduct EXCEPT !.imageUrl = ""]
             /\ selectedFile' = ev'[2] ]_vars

\* A file was selected in create mode after a draft with an uploaded image
\* had been submitted.
C7_Witness ==
    /\ ev = <<"fileChange", "f2">>
    /\ product = NoProduct
    /\ selectedFile = "f2"
    /\ newProduct.imageUrl = ""
    /\ isSubmitting
    /\ closedBy = "none"

\* C9: an accepted submit for a product that carries an identifier is a PUT
\* to /api/products/{id}; without a product it is a POST to /api/products.
C9_MethodFollowsIdentifier ==
    sent # NoRequest
      => IF product # NoProduct
         THEN sent.method = "PUT" /\ sent.url = <<"/api/products", product.id>>
         ELSE sent.method = "POST" /\ sent.url = <<"/api/products">>

\* C11: when an upload fails (success = false, no URL, or an exception) an
\* error notification is shown and the draft's imageUrl is empty afterwards.
C11_FailedUploadLeavesUrlEmpty ==
    (ev[1] = "uploadSettled" /\ got.upload # "ok")
      => /\ toast[1] = "error"
         /\ newProduct.imageUrl = ""

\* C12: the draft's subCategory is empty or one of the options of the
\* draft's category, and a change of category leaves subCategory empty.
C12_SubCategoryOfCategory ==
    /\ newProduct.subCategory = "" \/ newProduct.subCategory \in subCategoryOptions
    /\ (ev[1] = "category" => newProduct.subCategory = "")

\* C13: in create mode a save request is issued only when the draft's
\* imageUrl was stored by the successful answer of an upload invoked for
\* that draft.
C13_SaveOnlyAfterOwnUpload ==
    (ev[1] = "submit" /\ sent # NoRequest /\ product = NoProduct)
      => urlBy = "upload"

\* C17: in edit mode, selecting a file changes only the selected file and
\* the preview; the draft, imageUrl included, is left as it was, so a submit
\* is still accepted with the stored imageUrl.
C17_EditModeFileKeepsDraft ==
    [][ (ev'[1] = "fileChange" /\ product # NoProduct)
          => /\ newProduct' = newProduct
             /\ selectedFile' = ev'[2]
             /\ imagePreview' = DataUrl(ev'[2])
             /\ UNCHANGED <<isOpen, product, isSubmitting, isUploading,
                            uploads, saves>> ]_vars

\* A file was selected while editing a product; the draft still holds the
\* product's imageUrl.
C17_Witness ==
    /\ ev = <<"fileChange", "f1">>
    /\ product # NoProduct
    /\ isOpen
    /\ selectedFile = "f1"
    /\ imagePreview = DataUrl("f1")
    /\ newProduct.imageUrl # ""
    /\ newProduct.imageUrl = product.imageUrl

\* C18: in create mode a non-empty imageUrl of the draft is the URL of the
\* upload of the file that is currently selected.
C18_UrlIsOfSelectedFile ==
    (isOpen /\ ~effectPending /\ product = NoProduct /\ newProduct.imageUrl # "")
      => /\ selectedFile # NoFile
         /\ newProduct.imageUrl = UrlOf(selectedFile)

\* C19: once the workflow has been closed and its draft reset, with no
\* product to edit, the draft's imageUrl stays empty: the answer of an upload
\* started before the close does not change it.
C19_StaleUploadLeavesClosedDraft ==
    (~isOpen /\ ~effectPending /\ product = NoProduct)
      => newProduct.imageUrl = ""

\* C21: with every request answered, isUploading once true becomes false
\* again and isSubmitting once true becomes false again, and each is false
\* right after the answer of an upload respectively of a save, whatever the
\* answer was.
C21_BusyFlagsClear ==
    /\ isUploading ~> ~isUploading
    /\ isSubmitting ~> ~isSubmitting
    /\ [](ev[1] = "uploadSettled" => ~isUploading)
    /\ [](ev[1] = "saveSettled" => ~isSubmitting)

\* A save ended with a transport error after an upload had been answered:
\* neither flag is left set and the workflow is still open.
C21_Witness ==
    /\ ev = <<"saveSettled", "failed">>
    /\ got = Threw
    /\ ~isSubmitting
    /\ ~isUploading
    /\ NumUploads = 0
    /\ saves = {}
    /\ urlBy = "upload"
    /\ isOpen

----------------------------------------------------------------------------
(* Properties of the list view (of SpecList) *)

\* C8: a change of the search text issues no fetch; while the debounce timer
\* is armed (less than the delay since the last change) the timer has issued
\* none; once the delay has passed without a change it has issued exactly
\* one, for page 1 and the search text as it stands.
C8_DebounceOneFetch ==
    /\ (listEv = "search" => issued = NoFetch)
    /\ (timers # {} => quietFetches = 0)
    /\ (timers = {} => quietFetches = 1)
    /\ (listEv = "timer" => issued.page = 1 /\ issued.search = searchQuery)

\* The timer has fired after the search text was changed to "ab".
C8_Witness ==
    /\ listEv = "timer"
    /\ searchQuery = "ab"
    /\ issued.page = 1
    /\ issued.search = "ab"
    /\ quietFetches = 1
    /\ timers = {}

\* The last step was a list fetch answering with a failure.
FetchFailed(ev_, got_) ==
    /\ ev_ = "fetchSettled"
    /\ got_.res = Threw \/ ~got_.res.success

\* The last step was a list fetch answering with success.
FetchSucceeded(ev_, got_) ==
    /\ ev_ = "fetchSettled"
    /\ got_.res # Threw
    /\ got_.res.success

\* C14: when a list fetch fails (success = false, or an exception of fetch
\* or of the parsing) an error notification is shown, the held collection and
\* pagination are unchanged, and loading is false.
C14_FetchFailureKeepsList ==
    [][ FetchFailed(listEv', listGot')
          => /\ listToast'[1] = "error"
             /\ emails' = emails
             /\ pagination' = pagination
             /\ ~loading' ]_vars

\* A fetch failed with the server's message while the list held a row and
\* a pagination state received earlier.
C14_Witness ==
    /\ FetchFailed(listEv, listGot)
    /\ listGot.res = [success |-> FALSE, message |-> ServerMessage]
    /\ listToast = <<"error", ServerMessage>>
    /\ Len(emails) > 0
    /\ pagination # InitialPagination
    /\ ~loading

\* C16: no pending list fetch is ever cancelled, and the held collection
\* changes exactly when a successful response arrives, to the rows that
\* response carries: the held collection is that of the successful response
\* that arrived last, whichever request it answers.
C16_LastArrivalWins ==
    [][ /\ listEv' = "fetchSettled" => Len(fetches') = Len(fetches) - 1
        /\ listEv' # "fetchSettled" => /\ Len(fetches') >= Len(fetches)
                                       /\ emails' = emails
        /\ FetchSucceeded(listEv', listGot') => emails' = listGot'.res.data
        /\ FetchFailed(listEv', listGot') => emails' = emails ]_vars

\* All fetches have answered; the last to arrive, with success, was a request
\* issued before one that had answered earlier, and the list holds its rows.
C16_Witness ==
    /\ FetchSucceeded(listEv, listGot)
    /\ listGot.overtaken
    /\ fetches = <<>>
    /\ emails = listGot.res.data
    /\ Len(emails) > 0
    /\ emails[1].email # searchQuery

\* C20: loading is true whenever a list fetch is in flight.
C20_LoadingWhileInFlight == Len(fetches) > 0 => loading

----------------------------------------------------------------------------
(* Properties of the upload adapter (of SpecAdapter) *)

\* What the promise of a call must be after a callback with these arguments.
SettledAs(error, result) ==
    IF error # Null THEN [state |-> "rejected", value |-> error, settles |-> 1]
    ELSE IF result = Null
         THEN [state |-> "rejected", value |-> NoResultError, settles |-> 1]
    ELSE [state |-> "fulfilled", value |-> result, settles |-> 1]

\* C15: every call invokes upload_stream once and never again; its promise
\* is pending until the provider's callback and settled exactly once from
\* then on: rejected with the error the callback reports, rejected with the
\* 'no result returned' error when it reports neither error nor result, and
\* fulfilled with the result otherwise.
C15_PromiseSettlesOnce ==
    \A c \in 1 .. MaxAdapterCalls :
        LET a == adapter[c] IN
        /\ a.streams = (IF a.pc = "idle" THEN 0 ELSE 1)
        /\ a.promise.settles <= 1
        /\ (a.pc = "streaming" /\ a.callbacks = 0) => a.promise.state = "pending"
        /\ a.callbacks >= 1 => a.promise = SettledAs(a.first.error, a.first.result)

\* A call whose callback reported neither error nor result, and was then
\* invoked again with a result: the promise stays rejected.
C15_Witness ==
    \E c \in 1 .. MaxAdapterCalls :
        /\ adapter[c].callbacks = 2
        /\ adapter[c].first = [error |-> Null, result |-> Null]
        /\ adapter[c].last.result # Null
        /\ adapter[c].last.error = Null
        /\ adapter[c].promise.state = "rejected"
        /\ adapter[c].promise.value = NoResultError
        /\ adapter[c].folder = "products"

----------------------------------------------------------------------------
(* Properties of the features text (of SpecFeatures) *)

\* The positions at which a line of the text starts.
LineStarts(t) == { i \in 1 .. Len(t) + 1 : i = 1 \/ t[i - 1] = LF }

\* The line that starts at position i: up to the next line feed or the end.
LineAt(t, i) ==
    LET j == CHOOSE e \in (i - 1) .. Len(t) :
                 /\ e = Len(t) \/ t[e + 1] = LF
                 /\ \A k \in i .. e : t[k] # LF
    IN  SubSeq(t, i, j)

IsBlankLine(l) == \A k \in 1 .. Len(l) : l[k] \in Whitespace

Least(S) == CHOOSE m \in S : \A n \in S : m <= n

RECURSIVE LinesInOrder(_, _)
LinesInOrder(t, S) ==
    IF S = {} THEN <<>>
    ELSE <<LineAt(t, Least(S))>> \o LinesInOrder(t, S \ {Least(S)})

\* The lines of the text that are not blank, in their order.
NonBlankLines(t) ==
    LinesInOrder(t, { i \in LineStarts(t) : ~IsBlankLine(LineAt(t, i)) })

\* C10: the feature list sent is the text's lines without the blank ones, in
\* order; joined with line feeds and split again it is the same list.
C10_FeaturesSplitAndRoundTrip ==
    /\ (Len(fsent) >= 1 => fsent[1] = NonBlankLines(ftyped))
    /\ (Len(fsent) = 2 => fsent[2] = fsent[1])

\* A text with an empty line between two features went through submit, edit
\* and submit.
C10_Witness ==
    /\ fpc = "done"
    /\ ftyped = <<"a", LF, LF, "b">>
    /\ fsent = << << <<"a">>, <<"b">> >>, << <<"a">>, <<"b">> >> >>

====
